---- MODULE Spec2Model ----
(***************************************************************************)
(* The users/tasks REST service: the start-up script of index.js, the      *)
(* connection bootstrap, the two schemas, the three controllers and the    *)
(* three validated routes, over a document store with two collections.     *)
(*                                                                         *)
(* Text is a sequence of one-character strings, so that lower-casing, the  *)
(* emptiness test and the 24-hex-digit identifier test are computed.       *)
(***************************************************************************)
EXTENDS Integers, Sequences, FiniteSets, TLC

(* ------------------------------ bounds -------------------------------- *)

\* Requests in flight at the same time (request slots).
MaxReqs == 2

\* Documents constructed over a run (identifiers handed out).
MaxDocs == 2

(* ------------------------- program constants -------------------------- *)

PORT == 3000

\* isMongoId: a string of exactly 24 hexadecimal digits.
IdLen == 24

ReqIds == 1..MaxReqs

(* ------------------------------- text --------------------------------- *)

HexChars ==
  {"0", "1", "2", "3", "4", "5", "6", "7", "8", "9",
   "a", "b", "c", "d", "e", "f", "A", "B", "C", "D", "E", "F"}

LowerChar(c) ==
  CASE c = "A" -> "a" [] c = "B" -> "b" [] c = "C" -> "c"
    [] c = "D" -> "d" [] c = "E" -> "e" [] c = "F" -> "f"
    [] c = "T" -> "t" [] c = "Z" -> "z"
    [] OTHER -> c

\* String.prototype.toLowerCase
ToLowerCase(s) == [i \in 1..Len(s) |-> LowerChar(s[i])]

EmptyBody == [f \in {} |-> <<>>]


(* --------------------------- identifiers ------------------------------ *)

HexDigits ==
  <<"0", "1", "2", "3", "4", "5", "6", "7", "8", "9", "a", "b", "c", "d", "e", "f">>

\* A generator that hands out the same identifier every time.
RepeatedObjectId(n) == [i \in 1..IdLen |-> IF i = IdLen THEN "1" ELSE "0"]

\* The n-th identifier the driver generates, written as ObjectId prints it:
\* 24 lower-case hexadecimal digits.
ObjectId(n) ==
  [i \in 1..IdLen |->
     IF i = IdLen THEN HexDigits[(n % 16) + 1]
     ELSE IF i = IdLen - 1 THEN HexDigits[((n \div 16) % 16) + 1]
     ELSE "0"]

(* ------------------------ request inputs ------------------------------ *)

\* 24 characters, the last one not a hexadecimal digit.
NonHexId == [i \in 1..IdLen |-> IF i = IdLen THEN "z" ELSE "0"]

\* A hexadecimal string of the wrong length.
ShortId == <<"1">>

UsernameInputs == {<<>>, <<"a">>, <<"A">>, <<"b">>}

TitleInputs == {<<>>, <<"t">>}

IdInputs == {ShortId, NonHexId, ObjectId(1), ObjectId(2)}

\* Bodies: a field may be absent.
UserBodies == {EmptyBody} \cup {[username |-> u] : u \in UsernameInputs}

\* Bodies that break neither rule, one of the two, or both.
TaskBodies ==
  {EmptyBody}
    \cup {[user |-> ObjectId(1)]}
    \cup {[title |-> t, user |-> ObjectId(1)] : t \in TitleInputs}
    \cup {[title |-> <<"t">>, user |-> u] : u \in IdInputs}
    \cup {[title |-> <<"t">>]}

\* The path parameter of a matched route is never absent.
TaskParams == {[userId |-> u] : u \in IdInputs}

Routes == {"postUser", "postTask", "getTasks"}

Inputs(route) ==
  CASE route = "postUser" -> UserBodies
    [] route = "postTask" -> TaskBodies
    [] OTHER -> TaskParams

\* The mount path a route's URL starts with.
RoutePrefix(route) == IF route = "postUser" THEN "/api/users" ELSE "/api/tasks"

(* --------------------------- validators ------------------------------- *)

\* express-validator reads an absent field as the empty string.
FieldString(data, f) == IF f \in DOMAIN data THEN data[f] ELSE <<>>

\* isMongoId without its length test.
isHexOnly(s) == \A i \in 1..Len(s) : s[i] \in HexChars

notEmpty(s) == Len(s) # 0

isMongoId(s) == Len(s) = IdLen /\ \A i \in 1..Len(s) : s[i] \in HexChars

\* The validation chain of each route, in order.
Rules(route) ==
  CASE route = "postUser" ->
         <<[field |-> "username", check |-> "notEmpty", msg |-> "Username is required"]>>
    [] route = "postTask" ->
         <<[field |-> "title", check |-> "notEmpty", msg |-> "Title is required"],
           [field |-> "user", check |-> "isMongoId",
            msg |-> "User ID must be a valid MongoDB ObjectId"]>>
    [] OTHER ->
         <<[field |-> "userId", check |-> "isMongoId", msg |-> "Invalid user ID"]>>

RuleHolds(rule, data) ==
  IF rule.check = "notEmpty"
    THEN notEmpty(FieldString(data, rule.field))
    ELSE isMongoId(FieldString(data, rule.field))

\* validationResult(req).array(): the violated rules, in chain order.
ValidationErrors(route, data) ==
  LET rules == Rules(route)
      bad == SelectSeq(rules, LAMBDA rule : ~RuleHolds(rule, data))
  IN [i \in 1..Len(bad) |-> [path |-> bad[i].field, msg |-> bad[i].msg]]


(* ----------------------------- schemas -------------------------------- *)

\* The username path without lowercase: true.
KeepCase(s) == s

\* userSchema, username: { lowercase: true }: the setter applied on assignment.
LowercaseSetter(s) == ToLowerCase(s)

\* new User(data) with { timestamps: true }; the identifier is generated when
\* the document is constructed.
UserDoc(data, id, now) ==
  [_id |-> id,
   username |-> LowercaseSetter(FieldString(data, "username")),
   createdAt |-> now,
   updatedAt |-> now]

\* required: true on a String path rejects an absent and an empty value.
UserSchemaError(data) ==
  IF FieldString(data, "username") = <<>>
    THEN "User validation failed: username: Path username is required."
    ELSE "none"

\* Casting a string to the ObjectId type: 24 hexadecimal digits, case ignored.
CastObjectId(s) == ToLowerCase(s)

\* new Task(data) with { timestamps: true }; user is stored as the bare
\* identifier.
TaskDoc(data, id, now) ==
  [_id |-> id,
   title |-> FieldString(data, "title"),
   user |-> CastObjectId(FieldString(data, "user")),
   createdAt |-> now,
   updatedAt |-> now]

\* title: required; user: required and of type ObjectId.
TaskSchemaError(data) ==
  IF FieldString(data, "title") = <<>>
    THEN "Task validation failed: title: Path title is required."
  ELSE IF FieldString(data, "user") = <<>>
    THEN "Task validation failed: user: Path user is required."
  ELSE IF ~isMongoId(FieldString(data, "user"))
    THEN "Task validation failed: user: Cast to ObjectId failed"
  ELSE "none"

\* Task.find({ user: userId }) casts the filter value to ObjectId.
FindCastError(userId) ==
  IF isMongoId(userId) THEN "none" ELSE "Cast to ObjectId failed for path user"

(* --------------------------- the store -------------------------------- *)

Ok(d) == [kind |-> "ok", doc |-> d]

OkList(ds) == [kind |-> "ok", docs |-> ds]

Err(m) == [kind |-> "err", msg |-> m]

NoOutcome == [kind |-> "none"]

\* The unique index on users.username (unique: true).
UniqueViolation(us, doc) == \E i \in 1..Len(us) : us[i].username = doc.username

\* An insert that overwrites the stored user of the same username.
UpsertUser(us, doc) ==
  IF UniqueViolation(us, doc)
    THEN [users |-> [i \in 1..Len(us) |->
                       IF us[i].username = doc.username THEN doc ELSE us[i]],
          out |-> Ok(doc)]
    ELSE [users |-> Append(us, doc), out |-> Ok(doc)]

\* The insert behind User.create: the collection afterwards and what the call
\* settles with.
InsertUser(us, doc) ==
  IF UniqueViolation(us, doc)
    THEN [users |-> us, out |-> Err("E11000 duplicate key error collection: users")]
    ELSE [users |-> Append(us, doc), out |-> Ok(doc)]

\* An insert that first looks the referenced user up.
InsertTaskChecked(ts, us, doc) ==
  IF \E i \in 1..Len(us) : us[i]._id = doc.user
    THEN [tasks |-> Append(ts, doc), out |-> Ok(doc)]
    ELSE [tasks |-> ts, out |-> Err("user not found")]

\* The insert behind Task.create: no lookup of the referenced user.
InsertTask(ts, us, doc) == [tasks |-> Append(ts, doc), out |-> Ok(doc)]

\* A stored reference as the query hands it on: not yet populated.
Ref(id) == [kind |-> "id", id |-> id]

\* A find without its filter.
FindAllTasks(ts, userId) ==
  [i \in 1..Len(ts) |->
     [_id |-> ts[i]._id, title |-> ts[i].title, user |-> Ref(ts[i].user),
      createdAt |-> ts[i].createdAt, updatedAt |-> ts[i].updatedAt]]

\* Task.find({ user: userId }): the matching tasks, in collection order.
FindTasks(ts, userId) ==
  LET hit == SelectSeq(ts, LAMBDA t : t.user = CastObjectId(userId))
  IN [i \in 1..Len(hit) |->
        [_id |-> hit[i]._id, title |-> hit[i].title, user |-> Ref(hit[i].user),
         createdAt |-> hit[i].createdAt, updatedAt |-> hit[i].updatedAt]]

\* populate("user") on one reference: the User of that identifier, or null
\* when the users collection holds none.
PopulateRef(us, ref) ==
  IF \E i \in 1..Len(us) : us[i]._id = ref.id
    THEN [kind |-> "doc",
          doc |-> us[CHOOSE i \in 1..Len(us) : us[i]._id = ref.id]]
    ELSE [kind |-> "null"]

\* A query without populate: the references stay bare.
NoPopulate(us, found) == found

\* populate("user") on the result of the find.
Populate(us, found) ==
  [i \in 1..Len(found) |-> [found[i] EXCEPT !.user = PopulateRef(us, found[i].user)]]

(* ---------------------------- responses ------------------------------- *)

\* res.status(400).json({ message: "validation failure", payload: errors.array() })
ValidationFailure(errors) ==
  [status |-> 400, message |-> "validation failure", payload |-> [errors |-> errors]]

\* res.json({ message: "success", payload: ... }): the status stays the default.
Success(out) ==
  [status |-> 200, message |-> "success", payload |-> out]

\* A catch block that answers with the validation status.
FailureAs400(out) ==
  [status |-> 400, message |-> "failure", payload |-> [error |-> out.msg]]

\* res.status(500).json({ message: "failure", payload: error.message })
Failure(out) ==
  [status |-> 500, message |-> "failure", payload |-> [error |-> out.msg]]

\* The framework's answer when no layer of the stack handles the request.
NotFound == [status |-> 404, message |-> "not found", payload |-> [error |-> "Cannot"]]


(* ------------------------------ state --------------------------------- *)

VARIABLES
  scriptPc,      \* position of the start-up script of index.js
  stack,         \* the layers app.use has registered, in order
  listenPort,    \* 0, or the port the server socket is bound to
  cbPending,     \* the listen callback is scheduled and has not run
  conn,          \* mongoose connection: "none", "connecting", "connected", "failed"
  connectCalls,  \* calls of mongoose.connect so far
  log,           \* console.log lines
  alive,         \* the process has not been brought down by an uncaught error
  net,           \* the store as the environment has it: "up", "down", "hung"
  users,         \* collection users, in insertion order
  tasks,         \* collection tasks, in insertion order
  nextId,        \* identifiers generated so far, plus one; also the logical time
  reqs           \* the requests in flight, by slot

vars ==
  <<scriptPc, stack, listenPort, cbPending, conn, connectCalls, log, alive, net,
    users, tasks, nextId, reqs>>

startup == <<scriptPc, stack, listenPort, cbPending>>

bootstrap == <<conn, connectCalls, log, alive>>

store == <<users, tasks>>

\* A free request slot. u0 and t0 record how long the two collections were when
\* the request arrived and when its find ran (the collections only grow, so the
\* prefix of that length is the collection as it was then).
Idle ==
  [pc |-> "idle", route |-> "none", data |-> EmptyBody, trace |-> <<>>,
   errors |-> <<>>, ctl |-> 0, storeOps |-> 0, doc |-> NoOutcome,
   out |-> NoOutcome, res |-> <<>>, u0 |-> 0, t0 |-> 0]

Init ==
  /\ scriptPc = "start"
  /\ stack = <<>>
  /\ listenPort = 0
  /\ cbPending = FALSE
  /\ conn = "none"
  /\ connectCalls = 0
  /\ log = <<>>
  /\ alive = TRUE
  /\ net \in {"up", "down", "hung"}
  /\ users = <<>>
  /\ tasks = <<>>
  /\ nextId = 1
  /\ reqs = [r \in ReqIds |-> Idle]

(* ----------------------- index.js, top to bottom ---------------------- *)

\* app.use(path, layer)
Use(stk, name, path) == Append(stk, [name |-> name, path |-> path])

UsersMount == [name |-> "usersRouter", path |-> "/api/users"]

\* The tasks router mounted without the /api prefix.
TasksMountNoPrefix == [name |-> "tasksRouter", path |-> "/tasks"]

TasksMount == [name |-> "tasksRouter", path |-> "/api/tasks"]

\* app.use(express.json())
UseJson ==
  /\ alive /\ scriptPc = "start"
  /\ stack' = Use(stack, "json", "/")
  /\ scriptPc' = "json"
  /\ UNCHANGED <<listenPort, cbPending, bootstrap, net, store, nextId, reqs>>

\* app.use(logger("dev"))
UseLogger ==
  /\ alive /\ scriptPc = "json"
  /\ stack' = Use(stack, "logger", "/")
  /\ scriptPc' = "logger"
  /\ UNCHANGED <<listenPort, cbPending, bootstrap, net, store, nextId, reqs>>

\* app.listen(PORT, callback): the socket is bound and listens from this call
\* on; the callback is queued for after the script.
Listen ==
  /\ alive /\ scriptPc = "logger"
  /\ listenPort' = PORT
  /\ cbPending' = TRUE
  /\ scriptPc' = "listen"
  /\ UNCHANGED <<stack, bootstrap, net, store, nextId, reqs>>

\* app.use("/api/users", userRouter)
MountUsers ==
  /\ alive /\ scriptPc = "listen"
  /\ stack' = Use(stack, UsersMount.name, UsersMount.path)
  /\ scriptPc' = "users"
  /\ UNCHANGED <<listenPort, cbPending, bootstrap, net, store, nextId, reqs>>

\* app.use("/api/tasks", taskRouter); the script ends and the event loop runs.
MountTasks ==
  /\ alive /\ scriptPc = "users"
  /\ stack' = Use(stack, TasksMount.name, TasksMount.path)
  /\ scriptPc' = "loop"
  /\ UNCHANGED <<listenPort, cbPending, bootstrap, net, store, nextId, reqs>>

\* The listen callback: logs the port and calls connectToMongoDB(), which runs
\* up to its await of mongoose.connect.
ListenCallback ==
  /\ alive /\ scriptPc = "loop" /\ cbPending
  /\ cbPending' = FALSE
  /\ log' = Append(log, "server is on port")
  /\ conn' = "connecting"
  /\ connectCalls' = connectCalls + 1
  /\ UNCHANGED <<scriptPc, stack, listenPort, alive, net, store, nextId, reqs>>

(* ----------------------- connectToMongoDB ----------------------------- *)

\* mongoose.connect resolved: console.log("MONGODB CONNECTED").
ConnectResolved(lg, calls) ==
  [conn |-> "connected", log |-> Append(lg, "MONGODB CONNECTED"),
   alive |-> TRUE, calls |-> calls]

\* A catch block that throws the error on: the rejection is unhandled and
\* brings the process down.
ConnectRethrown(lg, calls) ==
  [conn |-> "failed", log |-> Append(lg, "error"), alive |-> FALSE, calls |-> calls]

\* mongoose.connect rejected: the catch block logs the error and returns.
ConnectRejected(lg, calls) ==
  [conn |-> "failed", log |-> Append(lg, "error"), alive |-> TRUE, calls |-> calls]

ConnectSettle ==
  /\ alive /\ conn = "connecting" /\ net # "hung"
  /\ LET after == IF net = "up" THEN ConnectResolved(log, connectCalls)
                  ELSE ConnectRejected(log, connectCalls)
     IN /\ conn' = after.conn
        /\ log' = after.log
        /\ alive' = after.alive
        /\ connectCalls' = after.calls
  /\ UNCHANGED <<startup, net, store, nextId, reqs>>

\* The environment: the store goes away, or stops answering.
NetFail ==
  /\ alive /\ net = "up"
  /\ net' \in {"down", "hung"}
  /\ UNCHANGED <<startup, bootstrap, store, nextId, reqs>>


(* --------------------------- the routers ------------------------------ *)

RouterOf(route) == IF route = "postUser" THEN "usersRouter" ELSE "tasksRouter"

\* The layers of the stack a request for `route` passes, in stack order:
\* middleware registered without a path, and routers mounted on its prefix.
Dispatch(stk, route) ==
  LET hit == SelectSeq(stk, LAMBDA l : l.path = "/" \/ l.path = RoutePrefix(route))
  IN [i \in 1..Len(hit) |-> hit[i].name]

Routed(stk, route) ==
  \E i \in 1..Len(stk) :
    stk[i].name = RouterOf(route) /\ stk[i].path = RoutePrefix(route)

\* The controller called by the route handler, up to its await: the document is
\* constructed and validated against the schema in the process; only then is
\* the store operation issued.
CallController(req, id, now) ==
  LET route == req.route
      data == req.data
      schemaError ==
        CASE route = "postUser" -> UserSchemaError(data)
          [] route = "postTask" -> TaskSchemaError(data)
          [] OTHER -> FindCastError(data.userId)
      doc ==
        CASE route = "postUser" -> Ok(UserDoc(data, id, now))
          [] route = "postTask" -> Ok(TaskDoc(data, id, now))
          [] OTHER -> NoOutcome
  IN IF schemaError # "none"
       THEN [req EXCEPT !.pc = "settled", !.ctl = 1, !.doc = doc,
                        !.out = Err(schemaError)]
       ELSE [req EXCEPT !.pc = "awaiting", !.ctl = 1, !.doc = doc, !.storeOps = 1]

\* The route handler after the validation chain has run: the early return on
\* validationResult, else the try block up to the await.
Handler(req, id, now) ==
  IF req.errors # <<>>
    THEN [req EXCEPT !.pc = "done", !.res = Append(@, ValidationFailure(req.errors))]
    ELSE CallController(req, id, now)

\* A request from the socket to the first await of its handler.
Accept(stk, route, data, id, now, nUsers) ==
  LET arrived == [Idle EXCEPT !.route = route, !.data = data,
                              !.trace = Dispatch(stk, route), !.u0 = nUsers]
  IN IF ~Routed(stk, route)
       THEN [arrived EXCEPT !.pc = "done", !.res = Append(@, NotFound)]
       ELSE Handler([arrived EXCEPT
                       !.trace = @ \o <<"validators", "handler">>,
                       !.errors = ValidationErrors(route, data)], id, now)

\* A request is read off the socket once the event loop runs, which is after
\* the script and the listen callback. It takes the lowest free slot (slots
\* are interchangeable).
Request(r) ==
  /\ alive /\ scriptPc = "loop" /\ ~cbPending /\ listenPort = PORT
  /\ reqs[r].pc = "idle"
  /\ \A q \in 1..(r - 1) : reqs[q].pc # "idle"
  /\ \E route \in Routes :
       \E data \in Inputs(route) :
         LET req == Accept(stack, route, data, ObjectId(nextId), nextId, Len(users))
             constructs == req.doc.kind = "ok"
         IN /\ constructs => nextId <= MaxDocs
            /\ reqs' = [reqs EXCEPT ![r] = req]
            /\ nextId' = IF constructs THEN nextId + 1 ELSE nextId
  /\ UNCHANGED <<startup, bootstrap, net, store>>

(* ---------------------- the store at work ----------------------------- *)

\* An operation fails when the store cannot be reached, and waits (buffered)
\* while the connection is still being opened to a store that is up.
Unreachable == net = "down" \/ conn = "failed"

Serving == net = "up" /\ conn = "connected"

UnreachableError == Err("store unreachable")

\* The pending operation of request r is carried out, or fails.
StoreExec(r) ==
  /\ alive /\ reqs[r].pc = "awaiting"
  /\ net # "hung"
  /\ Unreachable \/ Serving
  /\ LET req == reqs[r]
     IN IF Unreachable
          THEN /\ reqs' = [reqs EXCEPT ![r] = [req EXCEPT !.pc = "settled",
                                                          !.out = UnreachableError]]
               /\ UNCHANGED store
        ELSE IF req.route = "postUser"
          THEN LET after == InsertUser(users, req.doc.doc)
               IN /\ users' = after.users
                  /\ tasks' = tasks
                  /\ reqs' = [reqs EXCEPT ![r] = [req EXCEPT !.pc = "settled",
                                                             !.out = after.out]]
        ELSE IF req.route = "postTask"
          THEN LET after == InsertTask(tasks, users, req.doc.doc)
               IN /\ tasks' = after.tasks
                  /\ users' = users
                  /\ reqs' = [reqs EXCEPT ![r] = [req EXCEPT !.pc = "settled",
                                                             !.out = after.out]]
        ELSE LET found == FindTasks(tasks, req.data.userId)
             IN /\ reqs' = [reqs EXCEPT ![r] =
                              [req EXCEPT !.pc = IF found = <<>> THEN "settled"
                                                 ELSE "found",
                                          !.out = OkList(found),
                                          !.t0 = Len(tasks)]]
                /\ UNCHANGED store
  /\ UNCHANGED <<startup, bootstrap, net, nextId>>

\* The second round trip of getTasksByUser: populate("user") on a non-empty
\* result.
StorePopulate(r) ==
  /\ alive /\ reqs[r].pc = "found"
  /\ net # "hung"
  /\ Unreachable \/ Serving
  /\ LET req == reqs[r]
     IN reqs' = [reqs EXCEPT ![r] =
                   IF Unreachable
                     THEN [req EXCEPT !.pc = "settled", !.out = UnreachableError,
                                      !.storeOps = @ + 1]
                     ELSE [req EXCEPT !.pc = "settled",
                                      !.out = OkList(Populate(users, req.out.docs)),
                                      !.storeOps = @ + 1]]
  /\ UNCHANGED <<startup, bootstrap, net, store, nextId>>

\* What the handler sends once its await has settled: the rest of the try
\* block, or the catch block.
Respond(out) ==
  IF out.kind = "ok"
    THEN Success(IF "doc" \in DOMAIN out THEN [doc |-> out.doc] ELSE [docs |-> out.docs])
    ELSE Failure(out)

Resume(r) ==
  /\ alive /\ reqs[r].pc = "settled"
  /\ reqs' = [reqs EXCEPT ![r] = [reqs[r] EXCEPT !.pc = "done",
                                                 !.res = Append(@, Respond(reqs[r].out))]]
  /\ UNCHANGED <<startup, bootstrap, net, store, nextId>>

\* The exchange is over and the request object is dropped.
Retire(r) ==
  /\ alive /\ reqs[r].pc = "done"
  /\ reqs' = [reqs EXCEPT ![r] = Idle]
  /\ UNCHANGED <<startup, bootstrap, net, store, nextId>>

(* -------------------------- specification ----------------------------- *)

Next ==
  \/ UseJson
  \/ UseLogger
  \/ Listen
  \/ MountUsers
  \/ MountTasks
  \/ ListenCallback
  \/ ConnectSettle
  \/ NetFail
  \/ \E r \in ReqIds : Request(r)
  \/ \E r \in ReqIds : StoreExec(r)
  \/ \E r \in ReqIds : StorePopulate(r)
  \/ \E r \in ReqIds : Resume(r)
  \/ \E r \in ReqIds : Retire(r)

Spec == Init /\ [][Next]_vars


\* The store operations and handler steps run when they can; arrivals, the
\* end of an exchange and store failures are up to the environment.
FairSpec ==
  /\ Spec
  /\ WF_vars(ConnectSettle)
  /\ \A r \in ReqIds :
       WF_vars(StoreExec(r)) /\ WF_vars(StorePopulate(r)) /\ WF_vars(Resume(r))

(* ------------------- vocabulary of the properties --------------------- *)

InFlight(r) == reqs[r].pc # "idle"

Answered(r) == reqs[r].pc = "done"

Answer(r) == reqs[r].res[1]

\* A structurally valid identifier, as the properties understand it.
StructurallyValidId(s) ==
  /\ Len(s) = 24
  /\ \A i \in 1..Len(s) :
       s[i] \in {"0", "1", "2", "3", "4", "5", "6", "7", "8", "9",
                 "a", "b", "c", "d", "e", "f", "A", "B", "C", "D", "E", "F"}

Present(data, f) == f \in DOMAIN data /\ data[f] # <<>>

\* At least one validation rule of the route is violated by the input.
ViolatesRule(route, data) ==
  CASE route = "postUser" -> ~Present(data, "username")
    [] route = "postTask" ->
         \/ ~Present(data, "title")
         \/ ~("user" \in DOMAIN data /\ StructurallyValidId(data.user))
    [] route = "getTasks" -> ~StructurallyValidId(data.userId)
    [] OTHER -> FALSE

\* The request failed because the store could not be reached.
StoreWasUnreachable(r) ==
  /\ Answer(r).status = 500
  /\ Answer(r).payload.error = "store unreachable"

(* ------------------------------- C1 ----------------------------------- *)

\* C1: on each of the three routes, a request that violates at least one
\* validation rule is answered with 400 and "validation failure", its
\* controller is never invoked and the store is never accessed for it, in every
\* state of the store (connected, unreachable or hung).
C1_ValidationRejects ==
  \A r \in ReqIds :
    (InFlight(r) /\ ViolatesRule(reqs[r].route, reqs[r].data)) =>
      /\ Answered(r)
      /\ Len(reqs[r].res) = 1
      /\ Answer(r).status = 400
      /\ Answer(r).message = "validation failure"
      /\ reqs[r].ctl = 0
      /\ reqs[r].storeOps = 0

\* A task lookup with a malformed path parameter is rejected while the store
\* hangs and another request is stuck waiting for it.
C1_Witness ==
  /\ net = "hung"
  /\ \E r, q \in ReqIds :
       /\ reqs[r].route = "getTasks" /\ reqs[r].data.userId = NonHexId
       /\ Answered(r) /\ Answer(r).status = 400
       /\ reqs[q].pc = "awaiting"

(* ------------------------------- C2 ----------------------------------- *)

SameIgnoringCase(a, b) == ToLowerCase(a) = ToLowerCase(b)

\* No user of that name, ignoring case, was stored when request r arrived.
NameWasFree(r) ==
  \A i \in 1..reqs[r].u0 : ~SameIgnoringCase(users[i].username, reqs[r].data.username)

\* Every stored user of the name request r carries was created by r or by q:
\* no third creation of that name got in.
OnlyTheseTwo(r, q) ==
  \A i \in 1..Len(users) :
    SameIgnoringCase(users[i].username, reqs[r].data.username) =>
      users[i]._id \in {reqs[r].doc.doc._id, reqs[q].doc.doc._id}

RacingCreations(r, q) ==
  /\ r # q
  /\ reqs[r].route = "postUser" /\ reqs[q].route = "postUser"
  /\ Answered(r) /\ Answered(q)
  /\ Present(reqs[r].data, "username") /\ Present(reqs[q].data, "username")
  /\ SameIgnoringCase(reqs[r].data.username, reqs[q].data.username)
  /\ NameWasFree(r) /\ NameWasFree(q)

\* C2: no two stored users ever have usernames equal ignoring case; and of two
\* concurrent user creations with the same username (in any case), arriving
\* while no such user is stored, never both are answered 200, and when both
\* reach the store and no third creation of that name is in the race, exactly
\* one is answered 200 and exactly one 500.
C2_UniqueUsernames ==
  /\ \A i, j \in 1..Len(users) :
       i # j => ~SameIgnoringCase(users[i].username, users[j].username)
  /\ \A r, q \in ReqIds :
       RacingCreations(r, q) =>
         /\ ~(Answer(r).status = 200 /\ Answer(q).status = 200)
         /\ ( /\ ~StoreWasUnreachable(r) /\ ~StoreWasUnreachable(q)
              /\ OnlyTheseTwo(r, q) ) =>
                {Answer(r).status, Answer(q).status} = {200, 500}

\* Two creations, "a" and "A", were in flight together; one got 200, the other
\* 500.
C2_Witness ==
  \E r, q \in ReqIds :
    /\ reqs[r].route = "postUser" /\ reqs[q].route = "postUser"
    /\ Answered(r) /\ Answered(q)
    /\ reqs[r].data = [username |-> <<"a">>]
    /\ reqs[q].data = [username |-> <<"A">>]
    /\ NameWasFree(r) /\ NameWasFree(q)
    /\ Answer(r).status = 500 /\ Answer(q).status = 200


(* ------------------------------- C3 ----------------------------------- *)

\* The positions of the tasks of user `id` in the collection as it was when
\* the find of request r ran.
TasksOf(r, id) == {i \in 1..reqs[r].t0 : tasks[i].user = id}

\* C3: GET /api/tasks/user/:userId with a structurally valid identifier, once
\* the store has served it, is answered 200 with exactly the stored tasks whose
\* user is that identifier: N records when N such tasks exist, none of another
\* user, and the empty sequence when there is none, whether or not a user of
\* that identifier exists.
C3_ExactlyTheUsersTasks ==
  \A r \in ReqIds :
    ( /\ reqs[r].route = "getTasks" /\ Answered(r)
      /\ StructurallyValidId(reqs[r].data.userId) ) =>
        \/ StoreWasUnreachable(r)
        \/ /\ Answer(r).status = 200
           /\ Answer(r).message = "success"
           /\ LET got == Answer(r).payload.docs
                  want == TasksOf(r, reqs[r].data.userId)
              IN /\ Len(got) = Cardinality(want)
                 /\ {got[k]._id : k \in 1..Len(got)} = {tasks[i]._id : i \in want}
                 /\ \A k \in 1..Len(got) :
                      \E i \in want :
                        got[k]._id = tasks[i]._id /\ got[k].title = tasks[i].title

\* A lookup returned one task while a task of another user was stored too.
C3_Witness ==
  \E r \in ReqIds :
    /\ reqs[r].route = "getTasks" /\ Answered(r) /\ Answer(r).status = 200
    /\ Len(Answer(r).payload.docs) = 1
    /\ \E i \in 1..reqs[r].t0 : tasks[i].user # reqs[r].data.userId

(* ------------------------------- C4 ----------------------------------- *)

\* A user of identifier `id` was stored when request r arrived.
UserExisted(r, id) == \E i \in 1..reqs[r].u0 : users[i]._id = id

Returned(r) ==
  IF reqs[r].route = "getTasks" /\ Answered(r) /\ Answer(r).status = 200
    THEN Answer(r).payload.docs
    ELSE <<>>

\* C4 as claimed: every returned task carries a full User object in `user`,
\* also when the task names no existing user.
C4_AlwaysFullUser ==
  \A r \in ReqIds :
    \A k \in 1..Len(Returned(r)) : Returned(r)[k].user.kind = "doc"

\* C4: every task returned by getTasksByUser has `user` populated, never the
\* bare identifier: with the stored User of that identifier when there is one,
\* and with null when the identifier names no stored user.
C4_PopulatedOrNull ==
  \A r \in ReqIds :
    \A k \in 1..Len(Returned(r)) :
      LET u == Returned(r)[k].user
          id == reqs[r].data.userId
      IN /\ u.kind \in {"doc", "null"}
         /\ UserExisted(r, id) => u.kind = "doc"
         /\ u.kind = "doc" =>
              /\ u.doc._id = id
              /\ \E i \in 1..Len(users) : users[i] = u.doc
              /\ {"_id", "username", "createdAt", "updatedAt"} \subseteq DOMAIN u.doc

\* A returned task carries the stored user it references.
C4_Witness ==
  \E r \in ReqIds :
    /\ Len(Returned(r)) >= 1
    /\ Returned(r)[1].user.kind = "doc"
    /\ Returned(r)[1].user.doc.username = <<"a">>

(* ------------------------------- C5 ----------------------------------- *)

\* C5: POST /api/tasks with a non-empty title and a structurally valid `user`,
\* once the store has served it, is answered 200 with a stored Task that
\* references exactly that identifier, whether or not a User of that
\* identifier exists: no existence check is made.
C5_TaskCreatedWithoutLookup ==
  \A r \in ReqIds :
    ( /\ reqs[r].route = "postTask" /\ Answered(r)
      /\ Present(reqs[r].data, "title")
      /\ "user" \in DOMAIN reqs[r].data
      /\ StructurallyValidId(reqs[r].data.user) ) =>
        \/ StoreWasUnreachable(r)
        \/ /\ Answer(r).status = 200
           /\ Answer(r).message = "success"
           /\ Answer(r).payload.doc.user = reqs[r].data.user
           /\ Answer(r).payload.doc.title = reqs[r].data.title
           /\ \E i \in 1..Len(tasks) : tasks[i] = Answer(r).payload.doc

\* A task was created for an identifier that no stored user has.
C5_Witness ==
  \E r \in ReqIds :
    /\ reqs[r].route = "postTask" /\ Answered(r) /\ Answer(r).status = 200
    /\ \A i \in 1..Len(users) : users[i]._id # reqs[r].data.user
    /\ \E i \in 1..Len(tasks) : tasks[i] = Answer(r).payload.doc

(* ------------------------------- C6 ----------------------------------- *)

CreatedUser(r) ==
  /\ reqs[r].route = "postUser" /\ Answered(r)
  /\ Present(reqs[r].data, "username")

\* C6 as claimed: the record returned for a created user carries the username
\* as it was sent.
C6_UsernameAsSent ==
  \A r \in ReqIds :
    (CreatedUser(r) /\ Answer(r).status = 200) =>
      Answer(r).payload.doc.username = reqs[r].data.username

\* C6: creating a User with a non-empty username that collides, ignoring case,
\* with no stored username returns a record whose username is the input in
\* lower case, whose identifier differs from that of every other stored
\* record, and which carries createdAt and updatedAt.
C6_CreatedUserRecord ==
  \A r \in ReqIds :
    CreatedUser(r) =>
      \/ StoreWasUnreachable(r)
      \/ /\ Answer(r).status = 500
         /\ \E i \in 1..Len(users) :
              SameIgnoringCase(users[i].username, reqs[r].data.username)
      \/ /\ Answer(r).status = 200
         /\ LET d == Answer(r).payload.doc
            IN /\ d.username = ToLowerCase(reqs[r].data.username)
               /\ {"_id", "createdAt", "updatedAt"} \subseteq DOMAIN d
               /\ StructurallyValidId(d._id)
               /\ \E i \in 1..Len(users) : users[i] = d
               /\ \A i \in 1..Len(users) : users[i]._id = d._id => users[i] = d
               /\ \A i \in 1..Len(tasks) : tasks[i]._id # d._id
               /\ \A i \in 1..reqs[r].u0 :
                    ~SameIgnoringCase(users[i].username, reqs[r].data.username)

\* A second user, "A", was created after another record and came back as "a".
C6_Witness ==
  \E r \in ReqIds :
    /\ CreatedUser(r) /\ Answer(r).status = 200
    /\ reqs[r].data.username = <<"A">>
    /\ Answer(r).payload.doc.username = <<"a">>
    /\ Len(users) + Len(tasks) = 2


(* ------------------------------- C7 ----------------------------------- *)

\* The response the claim's rule picks for request r: 400 when a validation
\* rule is violated, otherwise 500 with the error message when the controller
\* raised, otherwise 200 with the entity.
RuleChoosesAnswer(r) ==
  LET a == Answer(r)
      out == reqs[r].out
  IN IF ViolatesRule(reqs[r].route, reqs[r].data)
       THEN /\ a.status = 400 /\ a.message = "validation failure"
            /\ Len(a.payload.errors) >= 1
     ELSE IF out.kind = "err"
       THEN /\ a.status = 500 /\ a.message = "failure"
            /\ a.payload.error = out.msg
     ELSE /\ out.kind = "ok"
          /\ a.status = 200 /\ a.message = "success"
          /\ IF reqs[r].route = "getTasks"
               THEN a.payload.docs = out.docs
               ELSE a.payload.doc = out.doc

AnsweredByTheRule ==
  \A r \in ReqIds :
    /\ Len(reqs[r].res) <= 1
    /\ Answered(r) <=> Len(reqs[r].res) = 1
    /\ Answered(r) => RuleChoosesAnswer(r)

\* C7 as claimed: every request is answered, exactly once, by the rule.
C7_EveryRequestAnswered ==
  /\ []AnsweredByTheRule
  /\ \A r \in ReqIds : InFlight(r) ~> Answered(r)

\* C7: a request is answered at most once, and exactly once as soon as its
\* store call has settled (a request whose store call hangs is never
\* answered); the answer is 400 with "validation failure" when a validation
\* rule is violated, otherwise 500 with "failure" and the raw error message
\* when the controller raised, otherwise 200 with "success" and the entity; no
\* other status/message pair is sent.
C7_AnsweredOnceSettled ==
  /\ AnsweredByTheRule
  /\ \A r \in ReqIds :
       /\ reqs[r].pc = "settled" => ENABLED Resume(r)
       /\ (InFlight(r) /\ ~Answered(r) /\ reqs[r].pc # "settled") =>
            reqs[r].pc \in {"awaiting", "found"}

\* A duplicate username was answered 500 with the store's message while the
\* other slot holds a 200.
C7_Witness ==
  \E r, q \in ReqIds :
    /\ Answered(r) /\ Answer(r).status = 500
    /\ Answer(r).payload.error = "E11000 duplicate key error collection: users"
    /\ Answered(q) /\ Answer(q).status = 200


(* ------------------------------- C8 ----------------------------------- *)

\* C8: the connection bootstrap is triggered once, after the server has
\* started listening, and attempts the connection at most once; when the
\* attempt fails the error is logged and not raised further, the process does
\* not halt, and the server stays listening and keeps accepting requests.
C8_BootstrapOnceAndTolerant ==
  /\ connectCalls <= 1
  /\ connectCalls = 1 <=> conn # "none"
  /\ conn # "none" => (listenPort = 3000 /\ ~cbPending)
  /\ conn = "failed" =>
       /\ alive
       /\ listenPort = 3000
       /\ \E i \in 1..Len(log) : log[i] = "error"
       /\ \A i \in 1..Len(log) : log[i] # "MONGODB CONNECTED"
       /\ reqs[1].pc = "idle" => ENABLED Request(1)

\* After the failed attempt a request was accepted and answered.
C8_Witness ==
  /\ conn = "failed"
  /\ connectCalls = 1
  /\ \E r \in ReqIds : Answered(r) /\ Answer(r).status = 500

(* ------------------------------- C9 ----------------------------------- *)

BothRoutersMounted ==
  /\ \E i \in 1..Len(stack) : stack[i] = [name |-> "usersRouter", path |-> "/api/users"]
  /\ \E i \in 1..Len(stack) : stack[i] = [name |-> "tasksRouter", path |-> "/api/tasks"]

Grown(old, new) ==
  /\ Len(new) >= Len(old)
  /\ \A i \in 1..Len(old) : new[i] = old[i]

\* The step settles or answers request r with an error, or is a step of a
\* task lookup.
LeavesStoreAlone(r) ==
  \/ reqs[r].route = "getTasks" /\ reqs'[r] # reqs[r] /\ reqs'[r].route = "getTasks"
  \/ /\ Len(reqs'[r].res) = Len(reqs[r].res) + 1
     /\ reqs'[r].res[1].status \in {400, 500}
  \/ /\ reqs[r].pc = "awaiting" /\ reqs'[r].pc = "settled"
     /\ reqs'[r].out.kind = "err"

\* C10: the store only grows and stored records never change: no step modifies
\* or removes a stored User or Task; a task lookup leaves both collections
\* unchanged; and a request answered with 400 or 500 leaves both collections
\* unchanged.
C10_StoreOnlyGrows ==
  [][ /\ Grown(users, users') /\ Grown(tasks, tasks')
      /\ \A r \in ReqIds :
           LeavesStoreAlone(r) => (users' = users /\ tasks' = tasks) ]_vars

\* With a user stored, a duplicate was answered 500 and a lookup 200, and the
\* user is still the one stored first.
C10_Witness ==
  /\ Len(users) = 1 /\ users[1].username = <<"a">> /\ users[1].createdAt = 1
  /\ \E r, q \in ReqIds :
       /\ Answered(r) /\ Answer(r).status = 500 /\ reqs[r].route = "postUser"
       /\ Answered(q) /\ Answer(q).status = 200 /\ reqs[q].route = "getTasks"

====
